---- MODULE Spec2Model ----
(***************************************************************************)
(* Lua tables (hash), ltable.c 1.26: a chained scatter table with Brent's  *)
(* variation.  The table is one array of nodes {key, val, next}; `next' is *)
(* an index into the same array (NULL is -1).                              *)
(***************************************************************************)
EXTENDS Integers, Sequences, FiniteSets, TLC

\* t: the Hash (node, size, firstfree); nblocks: L->nblocks;
\* last: the last call and how it ended; written: the value last passed to
\* luaH_set for each key (history, not program state)
VARIABLES t, nblocks, last, written

vars == <<t, nblocks, last, written>>

(***************************************************************************)
(* Bounds of the model                                                     *)
(***************************************************************************)
\* number keys are 0..MaxNum
MaxNum == 0
\* non-nil values are the numbers 1..MaxVal
MaxVal == 2
\* largest size hint passed to luaH_new
MaxHint == 0
\* the keys of the filling client are the numbers 0..MaxFill
MaxFill == 10
\* the keys of the client whose allocations fail are the numbers 0..MaxMem
MaxMem == 5
\* failed allocations stop when L->nblocks would drop below -MaxLost
MaxLost == 1

(***************************************************************************)
(* Tagged values (TObject)                                                 *)
(***************************************************************************)
NULL == -1

Nil == [tt |-> "NIL", v |-> 0]

Num(n) == [tt |-> "NUMBER", v |-> n]

Str(i) == [tt |-> "STRING", v |-> i]

Arr(a) == [tt |-> "ARRAY", v |-> a]

ttype(o) == o.tt

\* a type luaH_mainposition has no case for
Line(n) == [tt |-> "LINE", v |-> n]

\* the precomputed hash carried by each interned string (tsvalue(key)->hash):
\* for the sizes 5 and 11 their main positions are 0, 3 and 4
StrHash == <<55, 58, 59>>

NumKeys == {Num(n) : n \in 0..MaxNum}

StrKeys == {Str(i) : i \in 1..Len(StrHash)}

\* one table used as a key, by its address (avalue(key)): main position 0 for
\* the sizes 5 and 11
ArrKeys == {Arr(110)}

\* keys with a hash rule
Keys == NumKeys \cup StrKeys \cup ArrKeys

\* the keys of the filling client
FillKeys == {Num(n) : n \in 0..MaxFill}

AllKeys == Keys \cup FillKeys

\* keys without a hash rule
BadKeys == {Nil, Line(1)}

\* every key a caller may pass
AnyKey == Keys \cup BadKeys

Vals == {Nil} \cup {Num(n) : n \in 1..MaxVal}

Hints == 0..MaxHint

luaO_equalObj(a, b) == a.tt = b.tt /\ a.v = b.v

\* the first sizes of the sizing function (the arrays of the model stay
\* below the last one)
dimensions == <<5, 11, 23, 47, 97>>

RECURSIVE redim(_, _)
redim(i, oldsize) ==
  IF i > Len(dimensions) THEN 0
  ELSE IF dimensions[i] > oldsize THEN dimensions[i]
  ELSE redim(i + 1, oldsize)

\* the first dimension greater than oldsize
luaO_redimension(oldsize) == redim(1, oldsize)

gcsize(n) == 1 + (n \div 16)

(***************************************************************************)
(* Main position and lookup                                                *)
(***************************************************************************)
\* results that are not a node: NULL, a walk that never ends, lua_error
LOOPS == -2

RAISED == -3

\* hashof whose default case goes on with h = 0
hashof_noraise(key) ==
  CASE ttype(key) = "NUMBER" -> key.v
    [] ttype(key) \in {"STRING", "USERDATA"} -> StrHash[key.v]
    [] ttype(key) \in {"ARRAY", "PROTO", "CPROTO", "CLOSURE"} -> key.v
    [] OTHER -> 0

\* the switch of luaH_mainposition: h, or RAISED in the default case
hashof(key) ==
  CASE ttype(key) = "NUMBER" -> key.v
    [] ttype(key) \in {"STRING", "USERDATA"} -> StrHash[key.v]
    [] ttype(key) \in {"ARRAY", "PROTO", "CPROTO", "CLOSURE"} -> key.v
    [] OTHER -> RAISED

luaH_mainposition(T, key) ==
  IF hashof(key) = RAISED THEN RAISED ELSE hashof(key) % T.size

\* chainfind that looks at the main position only
chainfind_first(T, key, n, fuel) ==
  IF luaO_equalObj(key, T.node[n].key) THEN n ELSE NULL

\* the do-while of luaH_get and of luaH_set: the index of the node holding
\* key, NULL when the chain ends
RECURSIVE chainfind(_, _, _, _)
chainfind(T, key, n, fuel) ==
  IF luaO_equalObj(key, T.node[n].key) THEN n
  ELSE IF T.node[n].next = NULL THEN NULL
  ELSE IF fuel = 0 THEN LOOPS
  ELSE chainfind(T, key, T.node[n].next, fuel - 1)

getnode(T, key) ==
  IF luaH_mainposition(T, key) = RAISED THEN RAISED
  ELSE chainfind(T, key, luaH_mainposition(T, key), T.size)

\* the value luaH_get returns (luaO_nilobject when the key is not found)
luaH_get(T, key) ==
  LET n == getnode(T, key) IN IF n < 0 THEN Nil ELSE T.node[n].val

luaH_pos(T, key) ==
  LET n == getnode(T, key) IN IF n < 0 THEN -1 ELSE n

\* how a call of luaH_get or luaH_pos ends
lookup_path(T, key) ==
  CASE getnode(T, key) = RAISED -> "error"
    [] getnode(T, key) = LOOPS -> "hang"
    [] OTHER -> "ok"

(***************************************************************************)
(* Creation                                                                *)
(***************************************************************************)
NilNode == [key |-> Nil, val |-> Nil, next |-> NULL]

hashnodecreate(nhash) == [i \in 0..(nhash - 1) |-> NilNode]

\* setnodevector that starts firstfree at the first node
setnodevector_first(size) ==
  [node |-> hashnodecreate(size), size |-> size, firstfree |-> 0]

setnodevector(size) ==
  [node |-> hashnodecreate(size), size |-> size, firstfree |-> size - 1]

luaH_new(size) == setnodevector(luaO_redimension(size + 1))

\* luaH_free that counts one block whatever the size
luaH_free_one(T, nb) == nb - 1

\* L->nblocks after luaH_free(t)
luaH_free(T, nb) == nb - gcsize(T.size)

(***************************************************************************)
(* Rehash                                                                  *)
(***************************************************************************)
RECURSIVE realuse(_, _)
realuse(T, i) ==
  IF i >= T.size THEN 0
  ELSE (IF ttype(T.node[i].val) # "NIL" THEN 1 ELSE 0) + realuse(T, i + 1)

\* newsize that counts the keys that are not nil
newsize_keys(T) ==
  luaO_redimension(2 * Cardinality({i \in DOMAIN T.node :
                                      ttype(T.node[i].key) # "NIL"}))

newsize(T) == luaO_redimension(realuse(T, 0) * 2)

\* t->firstfree-- while the key there is not nil; -1 when it leaves the array
RECURSIVE scandown(_, _)
scandown(node, ff) ==
  IF ff < 0 THEN -1
  ELSE IF ttype(node[ff].key) = "NIL" THEN ff
  ELSE scandown(node, ff - 1)

\* rehash1 that leaves old->next = mp also for the elements it has put in
\* their main positions
RECURSIVE rehash1_twice(_, _, _, _)
rehash1_twice(nold, T, i, oldsize) ==
  IF i >= oldsize THEN [nold |-> nold, t |-> T]
  ELSE LET old == nold[i] IN
    IF ttype(old.val) = "NIL"
    THEN rehash1_twice([nold EXCEPT ![i].next = NULL], T, i + 1, oldsize)
    ELSE LET mp == luaH_mainposition(T, old.key) IN
      IF ttype(T.node[mp].key) = "NIL"
      THEN rehash1_twice([nold EXCEPT ![i].next = mp],
                         [T EXCEPT !.node[mp].key = old.key,
                                   !.node[mp].val = old.val],
                         i + 1, oldsize)
      ELSE rehash1_twice([nold EXCEPT ![i].next = mp], T, i + 1, oldsize)

\* first loop: nold[i].next becomes NULL or the new main position of the
\* element
RECURSIVE rehash1(_, _, _, _)
rehash1(nold, T, i, oldsize) ==
  IF i >= oldsize THEN [nold |-> nold, t |-> T]
  ELSE LET old == nold[i] IN
    IF ttype(old.val) = "NIL"
    THEN rehash1([nold EXCEPT ![i].next = NULL], T, i + 1, oldsize)
    ELSE LET mp == luaH_mainposition(T, old.key) IN
      IF ttype(T.node[mp].key) = "NIL"
      THEN rehash1([nold EXCEPT ![i].next = NULL],
                   [T EXCEPT !.node[mp].key = old.key, !.node[mp].val = old.val],
                   i + 1, oldsize)
      ELSE rehash1([nold EXCEPT ![i].next = mp], T, i + 1, oldsize)

\* rehash2 without `e->next = mp->next'
RECURSIVE rehash2_cut(_, _, _, _)
rehash2_cut(nold, T, i, oldsize) ==
  IF i >= oldsize THEN T
  ELSE LET old == nold[i] IN
    IF old.next # NULL /\ T.firstfree >= 0
    THEN LET mp == old.next
             e == T.firstfree
             n1 == [T.node EXCEPT ![e] = [key |-> old.key, val |-> old.val,
                                          next |-> NULL]]
             n2 == [n1 EXCEPT ![mp].next = e]
         IN rehash2_cut(nold,
                        [T EXCEPT !.node = n2, !.firstfree = scandown(n2, e - 1)],
                        i + 1, oldsize)
    ELSE rehash2_cut(nold, T, i + 1, oldsize)

\* second loop: chain the elements whose main position was taken
RECURSIVE rehash2(_, _, _, _)
rehash2(nold, T, i, oldsize) ==
  IF i >= oldsize THEN T
  ELSE LET old == nold[i] IN
    IF old.next # NULL /\ T.firstfree >= 0
    THEN LET mp == old.next
             e == T.firstfree
             n1 == [T.node EXCEPT ![e] = [key |-> old.key, val |-> old.val,
                                          next |-> T.node[mp].next]]
             n2 == [n1 EXCEPT ![mp].next = e]
         IN rehash2(nold, [T EXCEPT !.node = n2, !.firstfree = scandown(n2, e - 1)],
                    i + 1, oldsize)
    ELSE rehash2(nold, T, i + 1, oldsize)

\* rehash without the update of firstfree between the two loops
rehash_noscan(T) ==
  LET T0 == setnodevector(newsize(T))
      S1 == rehash1(T.node, T0, 0, T.size)
  IN rehash2(S1.nold, S1.t, 0, T.size)

rehash(T) ==
  LET T0 == setnodevector(newsize(T))
      S1 == rehash1(T.node, T0, 0, T.size)
      T1 == [S1.t EXCEPT !.firstfree = scandown(S1.t.node, S1.t.firstfree)]
  IN rehash2(S1.nold, T1, 0, T.size)

(***************************************************************************)
(* luaH_set                                                                *)
(***************************************************************************)
\* while (othern->next != mp) othern = othern->next;
RECURSIVE findprevious(_, _, _, _)
findprevious(T, othern, mp, fuel) ==
  IF othern = NULL THEN NULL
  ELSE IF T.node[othern].next = mp THEN othern
  ELSE IF fuel = 0 THEN LOOPS
  ELSE findprevious(T, T.node[othern].next, mp, fuel - 1)

\* update that writes mp->val
update_mp(T, n, mp, val) == [T EXCEPT !.node[mp].val = val]

\* update that also frees the key when the value is nil
update_clearkey(T, n, mp, val) ==
  IF ttype(val) = "NIL"
  THEN [T EXCEPT !.node[n].val = val, !.node[n].key = Nil]
  ELSE [T EXCEPT !.node[n].val = val]

\* n->val = *val for the node n of the chain that holds the key
update(T, n, mp, val) == [T EXCEPT !.node[n].val = val]

\* outofmain with the comparison reversed
outofmain_rev(T, mp, n) == mp < n /\ luaH_mainposition(T, T.node[mp].key) # mp

\* outofmain that never moves the colliding node
outofmain_never(T, mp, n) == FALSE

\* is the colliding node out of its main position?
outofmain(T, mp, n) == mp > n /\ luaH_mainposition(T, T.node[mp].key) # mp

\* movecolliding without `othern->next = n'
movecolliding_norelink(T, mp, n, prev, key, val) ==
  LET n2 == [T.node EXCEPT ![n] = T.node[mp]]
      n3 == [n2 EXCEPT ![mp].next = NULL]
  IN [T EXCEPT !.node = [n3 EXCEPT ![mp].key = key, ![mp].val = val]]

\* movecolliding without `mp->next = NULL'
movecolliding_keepnext(T, mp, n, prev, key, val) ==
  LET n1 == [T.node EXCEPT ![prev].next = n]
      n2 == [n1 EXCEPT ![n] = n1[mp]]
  IN [T EXCEPT !.node = [n2 EXCEPT ![mp].key = key, ![mp].val = val]]

\* move the colliding node into the free position n (prev is the node before
\* mp in its chain) and put the new pair in mp
movecolliding(T, mp, n, prev, key, val) ==
  LET n1 == [T.node EXCEPT ![prev].next = n]
      n2 == [n1 EXCEPT ![n] = n1[mp]]
      n3 == [n2 EXCEPT ![mp].next = NULL]
  IN [T EXCEPT !.node = [n3 EXCEPT ![mp].key = key, ![mp].val = val]]

\* chainnew that puts the new pair in mp and the colliding node in n
chainnew_swap(T, mp, n, key, val) ==
  LET n1 == [T.node EXCEPT ![n] = T.node[mp]]
  IN [T EXCEPT !.node = [n1 EXCEPT ![mp] = [key |-> key, val |-> val,
                                            next |-> n]]]

\* chainnew without `mp->next = n'
chainnew_nolink(T, mp, n, key, val) ==
  LET n1 == [T.node EXCEPT ![n].next = T.node[mp].next]
  IN [T EXCEPT !.node = [n1 EXCEPT ![n].key = key, ![n].val = val]]

\* chainnew without `n->next = mp->next'
chainnew_head(T, mp, n, key, val) ==
  LET n1 == [T.node EXCEPT ![n].next = NULL]
      n2 == [n1 EXCEPT ![mp].next = n]
  IN [T EXCEPT !.node = [n2 EXCEPT ![n].key = key, ![n].val = val]]

\* the colliding node is in its own main position: the new pair goes into
\* the free position n, chained after mp
chainnew(T, mp, n, key, val) ==
  LET n1 == [T.node EXCEPT ![n].next = T.node[mp].next]
      n2 == [n1 EXCEPT ![mp].next = n]
  IN [T EXCEPT !.node = [n2 EXCEPT ![n].key = key, ![n].val = val]]

\* the part of luaH_set before the check of free places: the table with the
\* pair stored, and the path taken
insert(T, key, val) ==
  LET mp == luaH_mainposition(T, key)
      found == getnode(T, key)
      n == T.firstfree
  IN
  IF found = RAISED THEN [t |-> T, path |-> "error"]
  ELSE IF found = LOOPS THEN [t |-> T, path |-> "hang"]
  ELSE IF found # NULL THEN [t |-> update(T, found, mp, val), path |-> "update"]
  ELSE IF ttype(T.node[mp].key) = "NIL"
  THEN [t |-> [T EXCEPT !.node[mp].key = key, !.node[mp].val = val],
        path |-> "free"]
  ELSE IF outofmain(T, mp, n)
  THEN LET prev == findprevious(T, luaH_mainposition(T, T.node[mp].key), mp,
                                T.size)
       IN IF prev = NULL THEN [t |-> T, path |-> "segv"]
          ELSE IF prev = LOOPS THEN [t |-> T, path |-> "hang"]
          ELSE [t |-> movecolliding(T, mp, n, prev, key, val), path |-> "move"]
  ELSE [t |-> chainnew(T, mp, n, key, val), path |-> "chain"]

\* freeplace that steps back once without looking at the new place
freeplace_once(T) ==
  IF ttype(T.node[T.firstfree].key) = "NIL" THEN T.firstfree
  ELSE T.firstfree - 1

\* freeplace that takes the lowest slot with a nil key
freeplace_first(T) ==
  IF \E i \in DOMAIN T.node : ttype(T.node[i].key) = "NIL"
  THEN CHOOSE i \in DOMAIN T.node :
         /\ ttype(T.node[i].key) = "NIL"
         /\ \A j \in DOMAIN T.node : ttype(T.node[j].key) = "NIL" => i <= j
  ELSE -1

\* for (;;) { check free places }: the new firstfree, -1 when the loop breaks
freeplace(T) == scandown(T.node, T.firstfree)

\* the paths of insert that store a new key
Inserting == {"free", "move", "chain"}

\* does the call reach rehash(t)?
saturates(T, key, val) ==
  LET r == insert(T, key, val) IN r.path \in Inserting /\ freeplace(r.t) < 0

\* the whole call when the allocation in rehash succeeds
luaH_set(T, key, val) ==
  LET r == insert(T, key, val) IN
  IF r.path \notin Inserting
  THEN [t |-> r.t, path |-> r.path, rehash |-> FALSE]
  ELSE IF freeplace(r.t) >= 0
  THEN [t |-> [r.t EXCEPT !.firstfree = freeplace(r.t)], path |-> r.path,
        rehash |-> FALSE]
  ELSE [t |-> rehash(r.t), path |-> r.path, rehash |-> TRUE]

\* the table a call leaves when luaM_newvector raises in rehash: the pair is
\* stored, the loop has walked firstfree down to the first node, and
\* setnodevector has assigned nothing
luaH_set_memerror(T, key, val) ==
  [insert(T, key, val).t EXCEPT !.firstfree = 0]

(***************************************************************************)
(* State machine                                                           *)
(***************************************************************************)
\* slots whose value is not nil
occupied(T) == Cardinality({i \in DOMAIN T.node : ttype(T.node[i].val) # "NIL"})

\* how the size changed in the rehash of a call
resize(old, new, rehashed) ==
  CASE ~rehashed -> "no"
    [] new > old -> "grow"
    [] new < old -> "shrink"
    [] OTHER -> "same"

Init ==
  /\ \E size \in Hints : t = luaH_new(size)
  /\ nblocks = gcsize(t.size)
  /\ last = [op |-> "new", path |-> "ok", rehash |-> "no"]
  /\ written = [k \in AllKeys |-> Nil]

\* no call has crashed or hung, and the table has not been freed
Running == last.path \notin {"hang", "segv"} /\ last.op # "free"

DoSet(key, val) ==
  /\ Running
  /\ LET r == luaH_set(t, key, val) IN
     /\ t' = r.t
     /\ nblocks' = IF r.rehash THEN nblocks - gcsize(t.size) + gcsize(r.t.size)
                   ELSE nblocks
     /\ last' = [op |-> "set", path |-> r.path,
                 rehash |-> resize(t.size, r.t.size, r.rehash)]
     /\ written' = IF r.path \in {"error", "hang", "segv"} THEN written
                   ELSE [written EXCEPT ![key] = val]

\* the allocation of the new node array fails (while the counter of blocks
\* stays above -MaxLost)
DoSetMemError(key, val) ==
  /\ Running
  /\ saturates(t, key, val)
  /\ nblocks - gcsize(t.size) >= 0 - MaxLost
  /\ t' = luaH_set_memerror(t, key, val)
  /\ nblocks' = nblocks - gcsize(t.size)
  /\ last' = [op |-> "set", path |-> "memerror", rehash |-> "no"]
  /\ written' = [written EXCEPT ![key] = val]

DoGet(key) ==
  /\ Running
  /\ last' = [op |-> "get", path |-> lookup_path(t, key), rehash |-> "no"]
  /\ UNCHANGED <<t, nblocks, written>>

DoPos(key) ==
  /\ Running
  /\ last' = [op |-> "pos", path |-> lookup_path(t, key), rehash |-> "no"]
  /\ UNCHANGED <<t, nblocks, written>>

\* luaH_free(t): the memory of the table is not used again
DoFree ==
  /\ Running
  /\ nblocks' = luaH_free(t, nblocks)
  /\ last' = [op |-> "free", path |-> "ok", rehash |-> "no"]
  /\ UNCHANGED <<t, written>>

Next ==
  \/ \E key \in AnyKey, val \in Vals : DoSet(key, val)
  \/ \E key \in AnyKey : DoGet(key)
  \/ \E key \in AnyKey : DoPos(key)

Spec == Init /\ [][Next]_vars

(***************************************************************************)
(* Properties                                                              *)
(***************************************************************************)
Slots == DOMAIN t.node

NonNil == Vals \ {Nil}

\* slot i holds a key that is not in its main position
displaced(T, i) ==
  ttype(T.node[i].key) # "NIL" /\ luaH_mainposition(T, T.node[i].key) # i

\* C1 (main-position invariant): every slot with a non-nil key that is not
\* at its key's main position has that main position occupied by a key whose
\* own main position is that slot.
MainPositionInv ==
  \A i \in Slots :
    displaced(t, i) =>
      LET mp == luaH_mainposition(t, t.node[i].key) IN
        /\ ttype(t.node[mp].key) # "NIL"
        /\ luaH_mainposition(t, t.node[mp].key) = mp

\* a set has just relocated a colliding node and a key sits out of its
\* main position
MainPositionWitness ==
  /\ last.op = "set" /\ last.path = "move"
  /\ \E i \in Slots : displaced(t, i)

\* C2 (round trip): luaH_get right after luaH_set(t, k, v) with a non-nil v
\* returns v, whatever path the set takes from a reachable table.
RoundTrip ==
  \A k \in Keys, v \in NonNil : luaH_get(luaH_set(t, k, v).t, k) = v

\* a set has chained a new key and rehashed, and a key that is chained out
\* of its main position is read back with its last written value
RoundTripWitness ==
  /\ last.op = "set" /\ last.path = "chain" /\ last.rehash = "grow"
  /\ \E k \in Keys :
       /\ written[k] # Nil
       /\ luaH_pos(t, k) # luaH_mainposition(t, k)
       /\ luaH_get(t, k) = written[k]

\* C3 (other keys unaffected): a set of k with any value leaves luaH_get of
\* every other key unchanged, and so every key reads back the value last
\* written for it (nil when it was deleted or never written).
OtherKeysUnaffected ==
  /\ \A k \in Keys, v \in Vals, k2 \in Keys :
       k2 # k => luaH_get(luaH_set(t, k, v).t, k2) = luaH_get(t, k2)
  /\ \A k \in Keys : luaH_get(t, k) = written[k]

\* after a rehash to the larger array, a deleted key still holds a slot in
\* the chain of a live key with the same main position
OtherKeysWitness ==
  /\ t.size > luaO_redimension(0)
  /\ \E k \in Keys, k2 \in Keys :
       /\ k # k2
       /\ luaH_mainposition(t, k) = luaH_mainposition(t, k2)
       /\ luaH_pos(t, k) >= 0 /\ luaH_get(t, k) = Nil
       /\ written[k2] # Nil /\ luaH_get(t, k2) = written[k2]

\* C4 (delete then absent): after luaH_set(t, k, v) and luaH_set(t, k, Nil)
\* luaH_get(t, k) returns nil.
DeleteThenAbsent ==
  \A k \in Keys, v \in NonNil :
    luaH_get(luaH_set(luaH_set(t, k, v).t, k, Nil).t, k) = Nil

\* a set has overwritten in place, and a key chained out of its main
\* position holds a nil value
DeleteWitness ==
  /\ last.op = "set" /\ last.path = "update"
  /\ \E k \in Keys :
       /\ luaH_pos(t, k) >= 0
       /\ luaH_pos(t, k) # luaH_mainposition(t, k)
       /\ luaH_get(t, k) = Nil

\* C5 as stated: after luaH_set(t, k, v1); luaH_set(t, k, v2) the lookup
\* returns v2 and the occupied-slot count is the one before the first set.
OverwriteCountAsBefore ==
  \A k \in Keys, v1 \in NonNil, v2 \in NonNil :
    LET t2 == luaH_set(luaH_set(t, k, v1).t, k, v2).t IN
      /\ luaH_get(t2, k) = v2
      /\ occupied(t2) = occupied(t)

\* C5 amended: the lookup returns v2 and the second set leaves the
\* occupied-slot count as the first set left it; the count is the one before
\* the first set when k had a non-nil value then.
OverwriteCount ==
  \A k \in Keys, v1 \in NonNil, v2 \in NonNil :
    LET t1 == luaH_set(t, k, v1).t
        t2 == luaH_set(t1, k, v2).t
    IN /\ luaH_get(t2, k) = v2
       /\ occupied(t2) = occupied(t1)
       /\ t2.size = t1.size
       /\ luaH_get(t, k) # Nil => occupied(t2) = occupied(t)

\* a set has overwritten in place the value of a key that now reads non-nil
OverwriteWitness ==
  /\ last.op = "set" /\ last.path = "update"
  /\ \E k \in Keys : luaH_get(t, k) = Num(MaxVal) /\ written[k] = Num(MaxVal)

\* C7 (invalid key fails fast): luaH_set, luaH_get and luaH_pos with a key
\* that has no hash rule raise in luaH_mainposition and leave the node
\* array, the chain pointers, firstfree and the size as they were, without
\* a rehash.
InvalidKeyFailsFast ==
  /\ \A key \in BadKeys :
       /\ lookup_path(t, key) = "error"
       /\ \A val \in Vals :
            luaH_set(t, key, val) = [t |-> t, path |-> "error", rehash |-> FALSE]
  /\ last.path = "error" => last.rehash = "no"

\* a call with such a key has just raised on a table that holds keys
InvalidKeyWitness ==
  /\ last.op = "set" /\ last.path = "error"
  /\ \E i \in Slots : ttype(t.node[i].key) # "NIL"
  /\ \E k \in Keys : written[k] # Nil /\ luaH_get(t, k) = written[k]

\* C8 as stated: the offset luaH_pos returns for a held key stays the index
\* of its slot across a set of another key that triggers no rehash.
PositionStable ==
  \A k \in Keys, v \in Vals, k2 \in Keys :
    LET r == luaH_set(t, k, v) IN
      (k2 # k /\ luaH_pos(t, k2) >= 0 /\ ~r.rehash)
        => luaH_pos(r.t, k2) = luaH_pos(t, k2)

\* C8 amended: the offset stays valid across a set of another key that
\* triggers no rehash and does not move the key: a set that inserts a new
\* key whose main position is the slot of k2, held there out of its own main
\* position, moves k2 to the slot firstfree pointed to.
PositionStableUnlessMoved ==
  \A k \in Keys, v \in Vals, k2 \in Keys :
    LET r == luaH_set(t, k, v)
        moved == r.path = "move" /\ luaH_mainposition(t, k) = luaH_pos(t, k2)
    IN (k2 # k /\ luaH_pos(t, k2) >= 0 /\ ~r.rehash)
         => luaH_pos(r.t, k2) = (IF moved THEN t.firstfree ELSE luaH_pos(t, k2))

\* a set without a rehash has chained a new key while other keys are held,
\* one of them out of its main position
PositionWitness ==
  /\ last.op = "set" /\ last.path = "chain" /\ last.rehash = "no"
  /\ \E k \in Keys, k2 \in Keys :
       /\ k # k2
       /\ luaH_pos(t, k) >= 0 /\ luaH_pos(t, k2) >= 0
       /\ displaced(t, luaH_pos(t, k2))

\* C9 (saturation and free slot): a set calls rehash exactly when its
\* insertion leaves no slot with a nil key; after luaH_new and after every
\* set some slot has a nil key and firstfree points to one.
SaturationInv ==
  /\ t.firstfree \in Slots
  /\ ttype(t.node[t.firstfree].key) = "NIL"
  /\ \A k \in Keys, v \in Vals :
       luaH_set(t, k, v).rehash
         <=> (\A i \in Slots : ttype(insert(t, k, v).t.node[i].key) # "NIL")

\* the set that filled the last slot has rehashed into a larger array and
\* every key is read back
SaturationWitness ==
  /\ last.op = "set" /\ last.rehash = "grow"
  /\ \A k \in Keys : written[k] # Nil /\ luaH_get(t, k) = written[k]

\* a client that uses the keys 0..MaxFill in ascending order: it sets a key
\* only when the key before it holds a slot
FillVals == {Nil, Num(1)}

InOrder(n) == n = 0 \/ luaH_pos(t, Num(n - 1)) >= 0

\* key n is the lowest or the highest key with a non-nil value
AtAnEnd(n) ==
  \/ \A m \in 0..(n - 1) : luaH_get(t, Num(m)) = Nil
  \/ \A m \in (n + 1)..MaxFill : luaH_get(t, Num(m)) = Nil

\* it inserts a key that holds no slot (with a nil value only into a table
\* without entries) or deletes the key at an end
NextFill ==
  \E n \in 0..MaxFill, val \in FillVals :
    /\ InOrder(n)
    /\ \/ luaH_pos(t, Num(n)) < 0 /\ (val # Nil \/ occupied(t) = 0)
       \/ val = Nil /\ luaH_get(t, Num(n)) # Nil /\ AtAnEnd(n)
    /\ DoSet(Num(n), val)

SpecFill == Init /\ [][NextFill]_vars

\* C10 (rehash size policy): the size after a rehash is the sizing function
\* of twice the number of old slots with a non-nil value, whatever the old
\* size; when that number is 0 the new array has the minimum size and holds
\* nothing.
RehashSize ==
  \A k \in FillKeys, v \in FillVals :
    LET r == luaH_set(t, k, v)
        old == insert(t, k, v).t
    IN r.rehash =>
         /\ r.t.size = luaO_redimension(2 * occupied(old))
         /\ occupied(old) = 0 =>
              /\ r.t.size = luaO_redimension(0)
              /\ \A i \in DOMAIN r.t.node : r.t.node[i] = NilNode

\* a rehash after deletions has just produced a smaller array
RehashSizeWitness ==
  /\ last.op = "set" /\ last.rehash = "shrink"
  /\ t.size = luaO_redimension(2 * occupied(t))

\* a client whose allocations may fail: it uses the keys 0..MaxMem in
\* ascending order, one key more than the smallest array has slots
MemKeys == {Num(n) : n \in 0..MaxMem}

NextMem ==
  \/ \E n \in 0..MaxMem, val \in FillVals : InOrder(n) /\ DoSet(Num(n), val)
  \/ \E n \in 0..MaxMem, val \in FillVals :
       InOrder(n) /\ DoSetMemError(Num(n), val)

SpecMem == Init /\ [][NextMem]_vars

\* the walk along next from node n ends
RECURSIVE chainends(_, _, _)
chainends(T, n, fuel) ==
  IF T.node[n].next = NULL THEN TRUE
  ELSE IF fuel = 0 THEN FALSE
  ELSE chainends(T, T.node[n].next, fuel - 1)

\* C6 (failed rehash leaves the table usable): also after a rehash whose
\* allocation failed, every key reads back the value last written for it, no
\* call crashes or hangs, and the next pointers form no cycle.
UsableAfterMemError ==
  /\ Running
  /\ \A k \in MemKeys : luaH_get(t, k) = written[k]
  /\ \A i \in Slots : chainends(t, i, t.size)

(***************************************************************************)
(* The invariant of the table (check_invariant) and the free cursor        *)
(***************************************************************************)
\* is node n in the list that starts at node m?  (a walk that never ends
\* finds nothing)
RECURSIVE listfind(_, _, _, _)
listfind(T, m, n, fuel) ==
  IF m = n THEN TRUE
  ELSE IF T.node[m].next = NULL THEN FALSE
  ELSE IF fuel = 0 THEN FALSE
  ELSE listfind(T, T.node[m].next, n, fuel - 1)

\* the assertions of check_invariant(t, filled)
check_invariant(T, filled) ==
  /\ T.firstfree \in DOMAIN T.node
  /\ \A n \in 0..(T.firstfree - 1) :
       \/ ttype(T.node[n].key) = "NIL"
       \/ luaH_mainposition(T, T.node[n].key) = n
  /\ IF filled THEN T.firstfree = 0
     ELSE ttype(T.node[T.firstfree].key) = "NIL"
  /\ \A n \in (IF filled THEN 0 ELSE T.firstfree + 1)..(T.size - 1) :
       /\ ttype(T.node[n].key) # "NIL"
       /\ LET mp == luaH_mainposition(T, T.node[n].key) IN
            /\ n = mp \/ luaH_mainposition(T, T.node[mp].key) = mp
            /\ listfind(T, mp, n, T.size)

\* C11 (free-cursor partition): in every state between operations every slot
\* strictly before firstfree has a nil key or holds a key whose main position
\* is that slot, and every slot strictly after firstfree has a non-nil key.
FreeCursorPartition ==
  /\ \A i \in Slots :
       i < t.firstfree =>
         \/ ttype(t.node[i].key) = "NIL"
         \/ luaH_mainposition(t, t.node[i].key) = i
  /\ \A i \in Slots : i > t.firstfree => ttype(t.node[i].key) # "NIL"

\* firstfree has come down past a key out of its main position, and before
\* it there are a free slot and a key in its main position
FreeCursorWitness ==
  /\ last.op = "set"
  /\ \E i \in Slots : i > t.firstfree /\ displaced(t, i)
  /\ \E i \in Slots : i < t.firstfree /\ ttype(t.node[i].key) = "NIL"
  /\ \E i \in Slots : i < t.firstfree /\ ttype(t.node[i].key) # "NIL"

\* the table on entry to rehash: the pair is stored and the loop of free
\* places has walked firstfree down to the first node
rehashentry(T, key, val) == [insert(T, key, val).t EXCEPT !.firstfree = 0]

\* the old nodes and the new table between the two loops of rehash
afterfirstloop(T) == rehash1(T.node, setnodevector(newsize(T)), 0, T.size)

\* C12 (rehash assertions): on every rehash a luaH_set reaches,
\* check_invariant(t, 1) holds on entry and check_invariant(t, 0) holds on the
\* new array on exit, and every entry left to the second loop finds its new
\* main position held by a key that is in its own main position, there after
\* the first loop and still there on exit.
RehashAssertions ==
  \A k \in Keys, v \in Vals :
    saturates(t, k, v) =>
      LET old == rehashentry(t, k, v)
          mid == afterfirstloop(old)
          new == luaH_set(t, k, v).t
      IN /\ check_invariant(old, TRUE)
         /\ check_invariant(new, FALSE)
         /\ \A i \in DOMAIN mid.nold :
              mid.nold[i].next # NULL =>
                LET mp == mid.nold[i].next IN
                  /\ mp = luaH_mainposition(mid.t, mid.nold[i].key)
                  /\ ttype(mid.t.node[mp].key) # "NIL"
                  /\ luaH_mainposition(mid.t, mid.t.node[mp].key) = mp
                  /\ new.node[mp].key = mid.t.node[mp].key

\* a rehash has just chained entries in its second loop: two keys sit out
\* of their main position in the new array
RehashAssertionsWitness ==
  /\ last.op = "set" /\ last.rehash # "no"
  /\ \E i \in Slots, j \in Slots : i # j /\ displaced(t, i) /\ displaced(t, j)
  /\ check_invariant(t, FALSE)

\* C13 (chain reachability and termination): in every reachable state every
\* slot with a non-nil key is reached from the main position of its key along
\* next, and next forms no cycle; so the walks of luaH_get and luaH_set end,
\* and the search of the previous node in the relocation of luaH_set finds it
\* without reading a null pointer.
ChainsReachAndEnd ==
  /\ \A i \in Slots :
       /\ chainends(t, i, t.size)
       /\ ttype(t.node[i].key) # "NIL"
            => listfind(t, luaH_mainposition(t, t.node[i].key), i, t.size)
  /\ \A k \in Keys :
       /\ lookup_path(t, k) = "ok"
       /\ \A v \in Vals : insert(t, k, v).path \notin {"hang", "segv"}
  /\ Running

\* a set has just relocated a colliding node, and a key is two links away
\* from its main position
ChainsWitness ==
  /\ last.op = "set" /\ last.path = "move"
  /\ \E i \in Slots :
       /\ displaced(t, i)
       /\ t.node[luaH_mainposition(t, t.node[i].key)].next \notin {NULL, i}

(***************************************************************************)
(* Collision lists                                                         *)
(***************************************************************************)
\* the number of nodes with a key on the walk along next from node n
RECURSIVE walked(_, _, _)
walked(T, n, fuel) ==
  (IF ttype(T.node[n].key) # "NIL" THEN 1 ELSE 0)
  + (IF T.node[n].next = NULL \/ fuel = 0 THEN 0
     ELSE walked(T, T.node[n].next, fuel - 1))

\* the number of slots whose key has the main position mp
sharing(T, mp) ==
  Cardinality({i \in DOMAIN T.node :
                 /\ ttype(T.node[i].key) # "NIL"
                 /\ luaH_mainposition(T, T.node[i].key) = mp})

\* C14 as stated: for every key, held or not, the chain luaH_get walks from
\* its main position is no longer than the number of keys of the table with
\* that main position.
ChainBoundAnyKey ==
  \A k \in Keys :
    walked(t, luaH_mainposition(t, k), t.size)
      <= sharing(t, luaH_mainposition(t, k))

\* C14 amended: the bound holds for every key whose main position is free or
\* held by a key in its own main position, as it is for every key the table
\* holds; for a key the table does not hold whose main position is held by a
\* key out of its own main position, luaH_get walks the rest of the list of
\* that key, which is shorter than the number of keys with the main position
\* of that key.
ChainBound ==
  \A k \in Keys :
    LET mp == luaH_mainposition(t, k) IN
      IF displaced(t, mp)
      THEN /\ luaH_pos(t, k) < 0
           /\ walked(t, mp, t.size)
                < sharing(t, luaH_mainposition(t, t.node[mp].key))
      ELSE walked(t, mp, t.size) <= sharing(t, mp)

\* a held key is two links away from its main position, and the main
\* position of a key that is not held is taken by a key of another list
ChainBoundWitness ==
  /\ last.op = "set"
  /\ \E k \in Keys :
       luaH_pos(t, k) >= 0 /\ walked(t, luaH_mainposition(t, k), t.size) >= 3
  /\ \E k \in Keys :
       luaH_pos(t, k) < 0 /\ displaced(t, luaH_mainposition(t, k))

\* C15 (Brent's variation placement): when luaH_set inserts a key k that a
\* reachable table does not hold, k is stored in its main position unless
\* that slot held a key whose main position is that slot (k then goes to the
\* slot firstfree pointed to); when the slot held a key out of its main
\* position, that node (key, value, next) is moved to the slot firstfree
\* pointed to, the node before it in its list is linked to the new slot, k
\* is stored in its main position with a null next, and no other slot
\* changes.  At the end of the call, after a rehash or not, k is in its main
\* position or that slot holds a key in its own main position (a rehash
\* copies no nil value, so it drops a k that was inserted with one).
BrentPlacement ==
  \A k \in Keys, v \in Vals :
    getnode(t, k) = NULL =>
      LET mp == luaH_mainposition(t, k)
          occ == t.node[mp]
          n == t.firstfree
          r == insert(t, k, v)
          new == r.t
          fin == luaH_set(t, k, v)
          inmain == ttype(occ.key) # "NIL" /\ luaH_mainposition(t, occ.key) = mp
      IN /\ luaH_pos(new, k) = (IF inmain THEN n ELSE mp)
         /\ new.node[luaH_pos(new, k)].val = v
         /\ ~fin.rehash => fin.t.node = new.node
         /\ LET fmp == luaH_mainposition(fin.t, k) IN
              \/ luaH_pos(fin.t, k) = fmp
              \/ /\ luaH_pos(fin.t, k) >= 0
                 /\ ttype(fin.t.node[fmp].key) # "NIL"
                 /\ luaH_mainposition(fin.t, fin.t.node[fmp].key) = fmp
              \/ fin.rehash /\ ttype(v) = "NIL" /\ luaH_pos(fin.t, k) < 0
         /\ displaced(t, mp) =>
              /\ r.path = "move"
              /\ new.node[n] = occ
              /\ new.node[mp] = [key |-> k, val |-> v, next |-> NULL]
              /\ \E prev \in Slots \ {mp, n} :
                   /\ listfind(t, luaH_mainposition(t, occ.key), prev, t.size)
                   /\ t.node[prev].next = mp
                   /\ new.node[prev] = [t.node[prev] EXCEPT !.next = n]
                   /\ \A i \in Slots \ {mp, n, prev} : new.node[i] = t.node[i]

\* a set has just moved a node that had a successor in its list, and the
\* new key is alone in its main position
BrentPlacementWitness ==
  /\ last.op = "set" /\ last.path = "move" /\ last.rehash = "no"
  /\ \E i \in Slots : displaced(t, i) /\ t.node[i].next # NULL
  /\ \E i \in Slots :
       /\ ttype(t.node[i].key) # "NIL" /\ ~displaced(t, i)
       /\ t.node[i].next = NULL
       /\ i > t.firstfree

\* C16 (overwrite and delete are in place): luaH_set(t, k, v) for a key k
\* that a slot holds (v may be nil) changes only the value of that slot:
\* every key and next, firstfree, the array and its size stay and there is
\* no rehash, so a deleted key keeps its slot and its place in its list.
OverwriteInPlace ==
  \A k \in Keys, v \in Vals :
    luaH_pos(t, k) >= 0 =>
      /\ luaH_set(t, k, v)
           = [t |-> [t EXCEPT !.node[luaH_pos(t, k)].val = v],
              path |-> "update", rehash |-> FALSE]
      /\ luaH_pos(luaH_set(t, k, Nil).t, k) = luaH_pos(t, k)

\* a set has overwritten in place, and a deleted key is still the root of a
\* list whose next key has a value
OverwriteInPlaceWitness ==
  /\ last.op = "set" /\ last.path = "update" /\ last.rehash = "no"
  /\ \E i \in Slots :
       /\ ttype(t.node[i].key) # "NIL" /\ ttype(t.node[i].val) = "NIL"
       /\ ~displaced(t, i)
       /\ t.node[i].next # NULL
       /\ ttype(t.node[t.node[i].next].val) # "NIL"

\* C17 (free-cursor monotonicity): across a luaH_set that does not rehash
\* firstfree stays or decreases and the array keeps its size; a rehash sets
\* it to the last slot of the new array and scans backward from there, so it
\* ends at the highest slot with a nil key.
FirstfreeMonotone ==
  [][IF last'.rehash = "no"
     THEN t'.firstfree <= t.firstfree /\ t'.size = t.size
     ELSE t'.firstfree = scandown(t'.node, t'.size - 1)]_vars

\* in the array of a rehash, a later set without a rehash has chained a key
\* and firstfree is below the last slot
FirstfreeWitness ==
  /\ last.op = "set" /\ last.path = "chain" /\ last.rehash = "no"
  /\ t.size > luaO_redimension(0)
  /\ t.firstfree < t.size - 1
  /\ ttype(t.node[t.size - 1].key) # "NIL"

\* slot r holds a key in its main position
isroot(T, r) ==
  ttype(T.node[r].key) # "NIL" /\ luaH_mainposition(T, T.node[r].key) = r

\* slot i is in a collision list: the list of a root that is chained to
\* other slots
participates(T, i) ==
  \E r \in DOMAIN T.node :
    isroot(T, r) /\ T.node[r].next # NULL /\ listfind(T, r, i, T.size)

\* C18 as stated: the next of a slot is not null if and only if the slot is
\* in a collision list rooted at some main position.
ChainPointerIff ==
  \A i \in Slots : t.node[i].next # NULL <=> participates(t, i)

\* C18 amended: the next of a slot is not null if and only if the slot is in
\* a collision list rooted at some main position and is not its last slot;
\* the slots of the collision lists are the slots that have a next or are the
\* next of a slot, each holds a key whose main position is the root of its
\* list, and every key out of its main position is in one.
ChainPointerInv ==
  \A i \in Slots :
    /\ t.node[i].next # NULL
         <=> (participates(t, i) /\ \E j \in Slots : t.node[i].next = j)
    /\ participates(t, i)
         <=> (t.node[i].next # NULL \/ \E j \in Slots : t.node[j].next = i)
    /\ participates(t, i) =>
         /\ ttype(t.node[i].key) # "NIL"
         /\ isroot(t, luaH_mainposition(t, t.node[i].key))
         /\ listfind(t, luaH_mainposition(t, t.node[i].key), i, t.size)
    /\ displaced(t, i) => participates(t, i)

\* there are a list of three slots, whose last slot has a null next, a key
\* alone in its main position and a slot without a key
ChainPointerWitness ==
  /\ last.op = "set"
  /\ \E i \in Slots :
       /\ participates(t, i) /\ t.node[i].next = NULL
       /\ walked(t, luaH_mainposition(t, t.node[i].key), t.size) = 3
  /\ \E i \in Slots : isroot(t, i) /\ ~participates(t, i)
  /\ \E i \in Slots : ttype(t.node[i].key) = "NIL"

(***************************************************************************)
(* Blocks and keys                                                         *)
(***************************************************************************)
\* the filling client, which may free the table at any time
NextFree ==
  \/ NextFill
  \/ DoFree

SpecFree == Init /\ [][NextFree]_vars

\* C19 (size accounting): after luaH_new and after every luaH_set, with or
\* without a rehash, the table's part of L->nblocks is gcsize(size)
\* = 1 + size/16 (the counter was 0 before luaH_new), and luaH_free subtracts
\* that amount, so the counter is back at 0 once the table is freed.
SizeAccounting ==
  /\ gcsize(t.size) = 1 + (t.size \div 16)
  /\ last.op # "free" =>
       /\ nblocks = gcsize(t.size)
       /\ luaH_free(t, nblocks) = 0
  /\ last.op = "free" => nblocks = 0

\* a table that had grown to an array of two blocks has been freed
SizeAccountingWitness ==
  /\ last.op = "free"
  /\ gcsize(t.size) > gcsize(luaO_redimension(0))
  /\ nblocks = 0

\* the number of slots that hold key
holders(T, key) ==
  Cardinality({i \in DOMAIN T.node : luaO_equalObj(key, T.node[i].key)})

\* C20 (key uniqueness): in every reachable state no two slots hold equal
\* non-nil keys; luaH_set of a key that a slot holds, also with a nil value,
\* leaves it in one slot; and a rehash copies every entry with a non-nil
\* value into the new array exactly once, with its value, and no other key.
KeyUniqueness ==
  /\ \A i \in Slots, j \in Slots :
       (i # j /\ ttype(t.node[i].key) # "NIL")
         => ~luaO_equalObj(t.node[i].key, t.node[j].key)
  /\ \A k \in Keys, v \in Vals :
       LET r == luaH_set(t, k, v)
           old == insert(t, k, v).t
       IN /\ luaH_pos(t, k) >= 0 => holders(r.t, k) = 1
          /\ holders(r.t, k) <= 1
          /\ r.rehash =>
               \A k2 \in Keys :
                 /\ holders(r.t, k2)
                      = (IF luaH_get(old, k2) # Nil THEN 1 ELSE 0)
                 /\ luaH_get(r.t, k2) = luaH_get(old, k2)

\* a rehash into the larger array has copied the entries with a value and
\* dropped a key whose value was nil
KeyUniquenessWitness ==
  /\ last.op = "set" /\ last.rehash = "grow"
  /\ \E k \in Keys : holders(t, k) = 0
  /\ \A k \in Keys : written[k] # Nil => holders(t, k) = 1
  /\ occupied(t) >= 3

====
